---------------------------- MODULE Spec2Model ----------------------------
(***************************************************************************)
(* A model of the two components of hi-ml that the specification covers:   *)
(*                                                                         *)
(*  - the dashboard launcher, health_azure/himl_tensorboard.py: main() and *)
(*    WrappedTensorboard.start(), together with the sync workers and the   *)
(*    visualization subprocess they create;                                *)
(*  - the multiple-instance-learning module as exercised by                *)
(*    testhisto/models/test_deepmil.py.                                    *)
(*                                                                         *)
(* Spec        : one execution of main().                                  *)
(* SpecObj     : a WrappedTensorboard object driven by a client that calls *)
(*               start() and stop() in any order.                          *)
(* SpecForward : test_lightningmodule's call of forward() on one bag.      *)
(* SpecMetrics : test_metrics() on one batch of bags.                      *)
(***************************************************************************)
EXTENDS Integers, Sequences, FiniteSets, TLC

(***************************************************************************)
(* Bounds of the model.                                                    *)
(***************************************************************************)
MaxRuns == 2
MaxCalls == 3
MaxBagSize == 3      \* tiles in the bag given to forward()
MaxClasses == 3
MaxPoolOut == 2
MaxBags == 3         \* bags in the batch given to test_step()
FeatureMax == 1      \* tile features are the integers -FeatureMax..FeatureMax

(***************************************************************************)
(* Values.                                                                 *)
(***************************************************************************)
None == 0                   \* the null reference; objects are numbered from 1
NoError == "no error"
Unbound == "<unbound>"
PyInt(n) == [int |-> n]     \* a Python int
PyStr(s) == [str |-> s]     \* a Python str

RunIds == {"r1", "r2"}
DefaultPort == 6006
Ports == {DefaultPort, 8080}
LogDirArgs == {"outputs", "tb"}
ConfigPaths == {"config.json"}
Executables == {"", "/env/bin/python"}
ROOT_DIR == <<"cwd">>       \* Path.cwd(), as the parts of an absolute path

RECURSIVE SeqsUpTo(_, _)
SeqsUpTo(S, n) ==
    IF n = 0 THEN {<<>>}
    ELSE LET shorter == SeqsUpTo(S, n - 1)
         IN  shorter \cup {Append(s, x) : s \in {t \in shorter : Len(t) = n - 1}, x \in S}

VARIABLES
    mode,            \* "main": main() runs; "client": a client drives the object
    pc,              \* position of the running call
    error,           \* the exception that left the last call, or None
    ret,             \* what the last start() returned
    calls,           \* the outward calls made so far, in order
    ncalls,          \* start()/stop() calls made by the client
    fs_files,        \* regular files that exist
    fs_dirs,         \* directories created by main()
    sys_executable,  \* sys.executable of the running interpreter
    args,            \* the parsed command line
    found,           \* the runs the workspace holds for the selection
    runs,            \* main(): what get_aml_runs returned
    ts,              \* the WrappedTensorboard object
    local_log_dirs,  \* start(): local
    run_local_root,  \* start(): local, bound by the loop over the runs
    next_submit,     \* start(): position of the loop over the run watchers
    heap,            \* executors, events and sessions created so far
    events_set,      \* the events that are set
    executors_down,  \* the executors that are shut down
    sessions_closed, \* the sessions that are closed
    tasks,           \* the refresh tasks submitted to executors
    synced,          \* the local directories a sync worker has mirrored logs into
    procs,           \* the subprocesses launched
    tpc,             \* position of the running test
    phase,           \* test_metrics: "first", "low" or "high" run
    module,          \* the DeepMILModule under test
    bag,             \* test_lightningmodule: the bag given to forward()
    out,             \* test_lightningmodule: what forward() returned
    batch,           \* test_metrics: the collated batch
    test_metrics,    \* module.test_metrics, the accumulators
    inputs_valid,    \* whether every patched update() passed validate_metric_inputs
    results,         \* what the last test_step returned
    values,          \* compute() of each module metric after the first test_step
    expected,        \* the independent metrics on the returned results
    thresholds,      \* low_threshold and high_threshold
    results_low,     \* the thresholded metrics with the low threshold
    results_high     \* the thresholded metrics with the high threshold

vars == <<mode, pc, error, ret, calls, ncalls, fs_files, fs_dirs, sys_executable,
          args, found, runs, ts, local_log_dirs, run_local_root, next_submit,
          heap, events_set, executors_down, sessions_closed, tasks, synced, procs,
          tpc, phase, module, bag, out, batch, test_metrics, inputs_valid, results,
          values, expected, thresholds, results_low, results_high>>

\* the state of the tests, which no step of the launcher touches
milVars == <<tpc, phase, module, bag, out, batch, test_metrics, inputs_valid, results,
             values, expected, thresholds, results_low, results_high>>
\* the launcher's inputs, which no step changes
envVars == <<mode, fs_files, sys_executable, args, found, milVars>>
\* the state of the launcher, which no step of the tests touches
launcherVars == <<mode, pc, error, ret, calls, ncalls, fs_files, fs_dirs, sys_executable,
                  args, found, runs, ts, local_log_dirs, run_local_root, next_submit,
                  heap, events_set, executors_down, sessions_closed, tasks, synced, procs>>
startLocals == <<local_log_dirs, run_local_root, next_submit>>
poolVars == <<heap, events_set, executors_down, sessions_closed, tasks, synced, procs>>

(***************************************************************************)
(* Library functions the code calls.                                       *)
(***************************************************************************)
Digit(d) == CASE d = 0 -> "0" [] d = 1 -> "1" [] d = 2 -> "2" [] d = 3 -> "3"
              [] d = 4 -> "4" [] d = 5 -> "5" [] d = 6 -> "6" [] d = 7 -> "7"
              [] d = 8 -> "8" [] d = 9 -> "9"

\* str(n) of a non-negative int
RECURSIVE IntToStr(_)
IntToStr(n) == IF n < 10 THEN Digit(n) ELSE IntToStr(n \div 10) \o Digit(n % 10)

\* str(x): a str is returned as it is, an int is formatted
str(x) == IF "int" \in DOMAIN x THEN IntToStr(x.int) ELSE x.str

\* os.path.join(a, b), b relative
path_join(a, b) == a \o "/" \o b

\* sep.join(parts)
RECURSIVE join(_, _)
join(sep, parts) ==
    IF Len(parts) = 0 THEN ""
    ELSE IF Len(parts) = 1 THEN parts[1]
    ELSE parts[1] \o sep \o join(sep, Tail(parts))

\* Path.is_file()
is_file(path) == path \in fs_files

\* root / name, for a relative name of one part
PathDiv(root, name) == Append(root, name)

\* path.relative_to(root): the parts of path below root
relative_to(path, root) == SubSeq(path, Len(root) + 1, Len(path))

\* str(path) of an absolute and of a relative path
AbsPathStr(path) == "/" \o join("/", path)
RelPathStr(path) == join("/", path)


(***************************************************************************)
(* The objects a WrappedTensorboard creates.                               *)
(***************************************************************************)
\* a run watcher given the common local root instead of the run's own directory
RunWatcher_common_root(run, local_root, remote_root, executor, event, session) ==
    [run |-> run, local_root |-> ts.local_root, remote_root |-> remote_root,
     executor |-> executor, event |-> event, session |-> session]

\* RunWatcher(run, local_root=, remote_root=, executor=, event=, session=)
RunWatcher(run, local_root, remote_root, executor, event, session) ==
    [run |-> run, local_root |-> local_root, remote_root |-> remote_root,
     executor |-> executor, event |-> event, session |-> session]

\* WrappedTensorboard(remote_root=, runs=, local_root=, port=); the base class
\* keeps runs, local_root and port and starts with no process
WrappedTensorboard(remote_root, the_runs, local_root, port) ==
    [constructed |-> TRUE, remote_root |-> remote_root, runs |-> the_runs,
     local_root |-> local_root, port |-> port, tb_proc |-> None,
     executor |-> None, event |-> None, session |-> None, run_watchers |-> <<>>]

NoTensorboard ==
    [constructed |-> FALSE, remote_root |-> "", runs |-> <<>>, local_root |-> "",
     port |-> PyStr(""), tb_proc |-> None, executor |-> None, event |-> None,
     session |-> None, run_watchers |-> <<>>]

NewHeap == [executors |-> 0, events |-> 0, sessions |-> 0]

\* where a finished call of start() or stop() goes on
AfterStart == IF mode = "main" THEN "main_input" ELSE "idle"
AfterStop == IF mode = "main" THEN "done" ELSE "idle"
\* where an exception leaving start() goes: main() does not catch it
AfterRaise == IF mode = "main" THEN "raised" ELSE "idle"

(***************************************************************************)
(* WrappedTensorboard.start()                                              *)
(***************************************************************************)
\* a start() that never takes the early return
AlreadyStarted_never(t) == FALSE

\* if self._tb_proc is not None
AlreadyStarted(t) == t.tb_proc # None

\* the entry of local_log_dirs for one run
LogDirEntry(run_id, dir) == run_id \o ":" \o dir

\* the --logdir branch taken for exactly one run only
UseLogdirSpec_not_one(dirs) == Len(dirs) # 1

\* the branch taken one run too late
UseLogdirSpec_late(dirs) == Len(dirs) > 2

\* if len(local_log_dirs) > 1
UseLogdirSpec(dirs) == Len(dirs) > 1

\* python_binary = sys.executable or "python"
python_binary == IF sys_executable # "" THEN sys_executable ELSE "python"

\* the command without its log directory arguments
BaseCommand(t) == <<python_binary, "-m", "tensorboard.main", "--port", str(t.port)>>

\* the finished python_command; run_local_root is read in the else branch only
PythonCommand(t, dirs, last_root) ==
    IF UseLogdirSpec(dirs)
    THEN BaseCommand(t) \o <<"--logdir_spec", join(",", dirs)>>
    ELSE BaseCommand(t) \o <<"--logdir", last_root>>

\* lines 40-46: the guard, then the executor, the event and the session
StartEnter ==
    /\ pc = "start"
    /\ IF AlreadyStarted(ts)
       THEN /\ ret' = "None"
            /\ error' = NoError
            /\ pc' = AfterStart
            /\ UNCHANGED <<ts, startLocals, poolVars>>
       ELSE /\ heap' = [executors |-> heap.executors + 1,
                        events |-> heap.events + 1,
                        sessions |-> heap.sessions + 1]
            /\ ts' = [ts EXCEPT !.executor = heap.executors + 1,
                                !.event = heap.events + 1,
                                !.session = heap.sessions + 1,
                                !.run_watchers = <<>>]
            /\ local_log_dirs' = <<>>
            /\ run_local_root' = Unbound
            /\ next_submit' = 1
            /\ pc' = "start_watchers"
            /\ UNCHANGED <<ret, error, events_set, executors_down, sessions_closed,
                           tasks, synced, procs>>
    /\ UNCHANGED <<envVars, calls, ncalls, fs_dirs, runs>>

\* lines 51-61: one iteration of the loop over self._runs, or its exit
StartMakeWatcher ==
    /\ pc = "start_watchers"
    /\ LET i == Len(ts.run_watchers) + 1
       IN  IF i <= Len(ts.runs)
           THEN LET root == path_join(ts.local_root, ts.runs[i])
                IN  /\ run_local_root' = root
                    /\ local_log_dirs' = Append(local_log_dirs, LogDirEntry(ts.runs[i], root))
                    /\ ts' = [ts EXCEPT !.run_watchers =
                                Append(@, RunWatcher(ts.runs[i], root, ts.remote_root,
                                                     ts.executor, ts.event, ts.session))]
                    /\ pc' = pc
           ELSE /\ pc' = "start_submit"
                /\ UNCHANGED <<ts, run_local_root, local_log_dirs>>
    /\ UNCHANGED <<envVars, error, ret, calls, ncalls, fs_dirs, runs, next_submit, poolVars>>

\* lines 63-64: one iteration of the loop over self._run_watchers, or its exit
StartSubmit ==
    /\ pc = "start_submit"
    /\ IF next_submit <= Len(ts.run_watchers)
       THEN /\ tasks' = Append(tasks, [executor |-> ts.executor,
                                       watcher |-> ts.run_watchers[next_submit],
                                       state |-> "queued"])
            /\ next_submit' = next_submit + 1
            /\ pc' = pc
       ELSE /\ pc' = "start_popen"
            /\ UNCHANGED <<tasks, next_submit>>
    /\ UNCHANGED <<envVars, error, ret, calls, ncalls, fs_dirs, runs, ts, local_log_dirs,
                   run_local_root, heap, events_set, executors_down, sessions_closed,
                   synced, procs>>

\* lines 71-90: the command and the subprocess. With no run the else branch reads
\* run_local_root, which no iteration has bound.
StartPopen ==
    /\ pc = "start_popen"
    /\ IF ~UseLogdirSpec(local_log_dirs) /\ run_local_root = Unbound
       THEN /\ error' = "UnboundLocalError"
            /\ pc' = AfterRaise
            /\ UNCHANGED <<ts, procs>>
       ELSE /\ procs' = Append(procs, [cmd |-> PythonCommand(ts, local_log_dirs, run_local_root),
                                       state |-> "running"])
            /\ ts' = [ts EXCEPT !.tb_proc = Len(procs) + 1]
            /\ pc' = "start_wait_url"
            /\ UNCHANGED error
    /\ UNCHANGED <<envVars, ret, calls, ncalls, fs_dirs, runs, startLocals, heap,
                   events_set, executors_down, sessions_closed, tasks, synced>>

\* lines 94-98: the serving URL is read from the subprocess and returned
StartUrlReported ==
    /\ pc = "start_wait_url"
    /\ ret' = "http://localhost:" \o str(ts.port) \o "/"
    /\ error' = NoError
    /\ pc' = AfterStart
    /\ UNCHANGED <<envVars, calls, ncalls, fs_dirs, runs, ts, startLocals, poolVars>>

\* line 94: the subprocess never reports a URL within the timeout, and
\* _wait_for_url raises
StartUrlTimeout ==
    /\ pc = "start_wait_url"
    /\ error' = "TimeoutError"
    /\ pc' = AfterRaise
    /\ UNCHANGED <<envVars, ret, calls, ncalls, fs_dirs, runs, ts, startLocals, poolVars>>

(***************************************************************************)
(* A sync worker: one run of RunWatcher.refresh_requeue on the executor.   *)
(* It looks at the shared event between two polls: with the event set it   *)
(* ends, otherwise it mirrors the run's new log files into the watcher's   *)
(* local directory and queues itself again.                                *)
(***************************************************************************)
WorkerRefresh(k) ==
    /\ tasks[k].state = "queued"
    /\ IF tasks[k].watcher.event \in events_set
       THEN /\ tasks' = [tasks EXCEPT ![k].state = "ended"]
            /\ UNCHANGED synced
       ELSE /\ synced' = synced \cup {tasks[k].watcher.local_root}
            /\ UNCHANGED tasks
    /\ UNCHANGED <<envVars, pc, error, ret, calls, ncalls, fs_dirs, runs, ts, startLocals,
                   heap, events_set, executors_down, sessions_closed, procs>>

Worker == \E k \in DOMAIN tasks : WorkerRefresh(k)

(***************************************************************************)
(* Tensorboard.stop(), inherited: the subprocess is terminated, the event  *)
(* set, the executor shut down and the session closed.                     *)
(***************************************************************************)
Stop ==
    /\ pc = "stop"
    /\ procs' = IF ts.tb_proc # None
                THEN [procs EXCEPT ![ts.tb_proc].state = "terminated"]
                ELSE procs
    /\ events_set' = IF ts.event # None THEN events_set \cup {ts.event} ELSE events_set
    /\ executors_down' = IF ts.executor # None THEN executors_down \cup {ts.executor}
                         ELSE executors_down
    /\ sessions_closed' = IF ts.session # None THEN sessions_closed \cup {ts.session}
                          ELSE sessions_closed
    /\ ts' = [ts EXCEPT !.tb_proc = None]
    /\ pc' = AfterStop
    /\ UNCHANGED <<envVars, error, ret, calls, ncalls, fs_dirs, runs, startLocals, heap,
                   tasks, synced>>


(***************************************************************************)
(* main()                                                                  *)
(***************************************************************************)
\* a main() that does not look for the config file
ConfigMissing_unchecked(a) == FALSE

\* line 169: if not config_path.is_file()
ConfigMissing(a) == ~is_file(a.config_file)

\* a main() that accepts an empty list of runs
NoRunsFound_unchecked(r) == Len(r) < 0

\* line 181: if len(runs) == 0
NoRunsFound(r) == Len(r) = 0

\* line 184: local_logs_dir = ROOT_DIR / args.log_dir
local_logs_dir == PathDiv(ROOT_DIR, args.log_dir)

\* line 187: remote_logs_dir = local_logs_dir.relative_to(ROOT_DIR)
remote_logs_dir == relative_to(local_logs_dir, ROOT_DIR)

\* line 192: the port handed to WrappedTensorboard
MainPort(a) == PyStr("6006")

\* lines 189-192
MainTensorboard(a, r) ==
    WrappedTensorboard(RelPathStr(remote_logs_dir) \o "/", r,
                       AbsPathStr(local_logs_dir), MainPort(a))

mainFrame == <<envVars, ret, ncalls, startLocals, poolVars>>

\* lines 168-173
MainCheckConfig ==
    /\ pc = "main_config"
    /\ IF ConfigMissing(args)
       THEN error' = "ValueError" /\ pc' = "raised"
       ELSE error' = error /\ pc' = "main_workspace"
    /\ UNCHANGED <<mainFrame, calls, fs_dirs, runs, ts>>

\* line 175
MainGetWorkspace ==
    /\ pc = "main_workspace"
    /\ calls' = Append(calls, "get_workspace")
    /\ pc' = "main_source"
    /\ UNCHANGED <<mainFrame, error, fs_dirs, runs, ts>>

\* line 177
MainRunIdSource ==
    /\ pc = "main_source"
    /\ calls' = Append(calls, "determine_run_id_source")
    /\ pc' = "main_runs"
    /\ UNCHANGED <<mainFrame, error, fs_dirs, runs, ts>>

\* line 178
MainGetRuns ==
    /\ pc = "main_runs"
    /\ calls' = Append(calls, "get_aml_runs")
    /\ runs' = found
    /\ pc' = "main_check"
    /\ UNCHANGED <<mainFrame, error, fs_dirs, ts>>

\* lines 180-182
MainCheckRuns ==
    /\ pc = "main_check"
    /\ IF NoRunsFound(runs)
       THEN error' = "ValueError" /\ pc' = "raised"
       ELSE error' = error /\ pc' = "main_mkdir"
    /\ UNCHANGED <<mainFrame, calls, fs_dirs, runs, ts>>

\* lines 184-185
MainMkdir ==
    /\ pc = "main_mkdir"
    /\ fs_dirs' = fs_dirs \cup {local_logs_dir}
    /\ calls' = Append(calls, "mkdir")
    /\ pc' = "main_construct"
    /\ UNCHANGED <<mainFrame, error, runs, ts>>

\* lines 187-192
MainConstruct ==
    /\ pc = "main_construct"
    /\ ts' = MainTensorboard(args, runs)
    /\ calls' = Append(calls, "WrappedTensorboard")
    /\ pc' = "main_start"
    /\ UNCHANGED <<mainFrame, error, fs_dirs, runs>>

\* line 194: the call of ts.start()
MainCallStart ==
    /\ pc = "main_start"
    /\ calls' = Append(calls, "start")
    /\ pc' = "start"
    /\ UNCHANGED <<mainFrame, error, fs_dirs, runs, ts>>

\* lines 195-197: the operator presses Enter, and ts.stop() is called
MainInput ==
    /\ pc = "main_input"
    /\ calls' = Append(Append(calls, "input"), "stop")
    /\ pc' = "stop"
    /\ UNCHANGED <<mainFrame, error, fs_dirs, runs, ts>>

\* no test is running
NoTests ==
    /\ tpc = "none"
    /\ phase = "none"
    /\ module = [n_classes |-> 1, pool_out_dim |-> 1]
    /\ bag = <<>>
    /\ out = [returned |-> FALSE]
    /\ batch = <<>>
    /\ test_metrics = <<>>
    /\ inputs_valid = TRUE
    /\ results = <<>>
    /\ values = <<>>
    /\ expected = <<>>
    /\ thresholds = <<>>
    /\ results_low = <<>>
    /\ results_high = <<>>

InitPool ==
    /\ heap = NewHeap
    /\ events_set = {}
    /\ executors_down = {}
    /\ sessions_closed = {}
    /\ tasks = <<>>
    /\ synced = {}
    /\ procs = <<>>
    /\ local_log_dirs = <<>>
    /\ run_local_root = Unbound
    /\ next_submit = 1
    /\ error = NoError
    /\ ret = "None"
    /\ calls = <<>>
    /\ ncalls = 0
    /\ fs_dirs = {}
    /\ NoTests

\* main() after parse_args()
Init ==
    /\ mode = "main"
    /\ pc = "main_config"
    /\ fs_files \in SUBSET ConfigPaths
    /\ sys_executable \in Executables
    /\ args \in [config_file : ConfigPaths, port : Ports, log_dir : LogDirArgs]
    /\ found \in SeqsUpTo(RunIds, MaxRuns)
    /\ runs = <<>>
    /\ ts = NoTensorboard
    /\ InitPool

Next ==
    \/ MainCheckConfig
    \/ MainGetWorkspace
    \/ MainRunIdSource
    \/ MainGetRuns
    \/ MainCheckRuns
    \/ MainMkdir
    \/ MainConstruct
    \/ MainCallStart
    \/ StartEnter
    \/ StartMakeWatcher
    \/ StartSubmit
    \/ StartPopen
    \/ StartUrlReported
    \/ StartUrlTimeout
    \/ Worker
    \/ MainInput
    \/ Stop

Spec == Init /\ [][Next]_vars

(***************************************************************************)
(* A client of one WrappedTensorboard object.                              *)
(***************************************************************************)
ClientPorts == {PyStr("6006"), PyInt(8080)}

ClientStart ==
    /\ pc = "idle"
    /\ ncalls < MaxCalls
    /\ ncalls' = ncalls + 1
    /\ calls' = Append(calls, "start")
    /\ pc' = "start"
    /\ UNCHANGED <<envVars, error, ret, fs_dirs, runs, ts, startLocals, poolVars>>

ClientStop ==
    /\ pc = "idle"
    /\ ncalls < MaxCalls
    /\ ncalls' = ncalls + 1
    /\ calls' = Append(calls, "stop")
    /\ pc' = "stop"
    /\ UNCHANGED <<envVars, error, ret, fs_dirs, runs, ts, startLocals, poolVars>>

\* the object after WrappedTensorboard(...)
InitObj ==
    /\ mode = "client"
    /\ pc = "idle"
    /\ fs_files = {}
    /\ sys_executable \in Executables
    /\ args = [config_file |-> "config.json", port |-> DefaultPort, log_dir |-> "outputs"]
    /\ found = <<>>
    /\ runs \in SeqsUpTo(RunIds, MaxRuns)
    /\ \E port \in ClientPorts :
         ts = WrappedTensorboard("outputs/", runs, "/cwd/outputs", port)
    /\ InitPool

NextObj ==
    \/ ClientStart
    \/ ClientStop
    \/ StartEnter
    \/ StartMakeWatcher
    \/ StartSubmit
    \/ StartPopen
    \/ StartUrlReported
    \/ StartUrlTimeout
    \/ Worker
    \/ Stop

SpecObj == InitObj /\ [][NextObj]_vars


(***************************************************************************)
(* Properties of the launcher.                                             *)
(***************************************************************************)
Range(f) == {f[i] : i \in DOMAIN f}
Called(name) == name \in Range(calls)
Running == {i \in DOMAIN procs : procs[i].state = "running"}
\* the refresh tasks submitted to executor e, in the order of submission
TasksOf(e) == SelectSeq(tasks, LAMBDA t : t.executor = e)
LastTwo(cmd) == SubSeq(cmd, Len(cmd) - 1, Len(cmd))
Flags(cmd) == {i \in DOMAIN cmd : cmd[i] \in {"--logdir", "--logdir_spec"}}
\* the value that follows "--port" in a command
PortOf(cmd) == cmd[(CHOOSE i \in DOMAIN cmd : cmd[i] = "--port") + 1]

\* C1: in main(), when get_aml_runs returns an empty list a ValueError is raised;
\* no WrappedTensorboard is constructed, start() is not called, no subprocess is
\* launched and the local log directory is not created.
C1_NoRunsRaises ==
    (mode = "main" /\ Called("get_aml_runs") /\ Len(runs) = 0) =>
        /\ pc \in {"main_check", "raised"}
        /\ pc = "raised" => error = "ValueError"
        /\ ~ts.constructed
        /\ ~Called("WrappedTensorboard") /\ ~Called("start") /\ ~Called("mkdir")
        /\ procs = <<>> /\ tasks = <<>> /\ fs_dirs = {}

C1_Witness ==
    /\ mode = "main" /\ Called("get_aml_runs") /\ Len(runs) = 0
    /\ pc = "raised" /\ error = "ValueError"

\* C2: in main(), when --config_file names no existing file a ValueError is raised
\* before get_workspace, determine_run_id_source, get_aml_runs or start() is reached.
C2_MissingConfigRaisesFirst ==
    (mode = "main" /\ args.config_file \notin fs_files) =>
        /\ pc \in {"main_config", "raised"}
        /\ pc = "raised" => error = "ValueError"
        /\ calls = <<>>
        /\ procs = <<>> /\ tasks = <<>>

C2_Witness ==
    /\ mode = "main" /\ args.config_file \notin fs_files
    /\ pc = "raised" /\ error = "ValueError"

\* the comma-joined specification of n runs, built from the last run backwards
RECURSIVE ExpectedLogdirSpec(_, _, _)
ExpectedLogdirSpec(root, ids, n) ==
    LET entry == ids[n] \o ":" \o root \o "/" \o ids[n]
    IN  IF n = 1 THEN entry ELSE ExpectedLogdirSpec(root, ids, n - 1) \o "," \o entry

\* C3: the command start() launches ends with "--logdir" and the run's local
\* directory when there is one run, and with "--logdir_spec" and the comma-joined
\* "<run.id>:<local_root/run.id>" entries, in run order, when there are two or
\* more; exactly one of the two flags appears in every launched command.
C3_LogdirArgument ==
    \A i \in DOMAIN procs :
        LET cmd == procs[i].cmd
            n == Len(ts.runs)
        IN  /\ Cardinality(Flags(cmd)) = 1
            /\ n >= 1
            /\ n = 1 => LastTwo(cmd) = <<"--logdir", ts.local_root \o "/" \o ts.runs[1]>>
            /\ n >= 2 => LastTwo(cmd) =
                            <<"--logdir_spec", ExpectedLogdirSpec(ts.local_root, ts.runs, n)>>

C3_Witness ==
    /\ \E i \in DOMAIN procs : LastTwo(procs[i].cmd)[1] = "--logdir_spec"
    /\ Len(ts.runs) >= 2

\* C4: once start() has launched the subprocess for n >= 1 runs, n run watchers
\* exist and n refresh tasks have been submitted to the executor, one per run and
\* in run order, each watcher bound to local_root/run.id; all share the one
\* executor, event and session of this start(); every task is submitted before
\* the subprocess is launched, and stays runnable while start() waits for the URL.
C4_OneWorkerPerRun ==
    ts.tb_proc # None =>
        LET n == Len(ts.runs)
            mine == TasksOf(ts.executor)
        IN  /\ n >= 1
            /\ ts.executor # None /\ ts.event # None /\ ts.session # None
            /\ Len(ts.run_watchers) = n
            /\ Len(mine) = n
            /\ \A k \in 1..n :
                 /\ mine[k].watcher = ts.run_watchers[k]
                 /\ ts.run_watchers[k].run = ts.runs[k]
                 /\ ts.run_watchers[k].local_root = ts.local_root \o "/" \o ts.runs[k]
                 /\ ts.run_watchers[k].executor = ts.executor
                 /\ ts.run_watchers[k].event = ts.event
                 /\ ts.run_watchers[k].session = ts.session
                 /\ pc = "start_wait_url" => mine[k].state = "queued"

C4_Witness ==
    /\ pc = "start_wait_url"
    /\ Len(ts.runs) = 2
    /\ ts.runs[1] # ts.runs[2]
    /\ Len(TasksOf(ts.executor)) = 2
    /\ synced = {ts.run_watchers[2].local_root}

\* C5: the subprocess main() launches runs on the port given by --port (6006
\* when the flag is omitted).
C5_PortFlagHonoured ==
    mode = "main" => \A i \in DOMAIN procs : PortOf(procs[i].cmd) = IntToStr(args.port)

\* C6: no execution of main() in which sync tasks were submitted or the subprocess
\* was launched ends before stop() was called, the subprocess terminated and the
\* shared event of every sync task set.
C6_TeardownAlways ==
    (mode = "main" /\ pc \in {"done", "raised"} /\ (tasks # <<>> \/ procs # <<>>)) =>
        /\ Called("stop")
        /\ Running = {}
        /\ \A k \in DOMAIN tasks : tasks[k].watcher.event \in events_set

\* the executors whose workers have not been told to stop
LiveExecutors ==
    {tasks[k].executor : k \in {j \in DOMAIN tasks : tasks[j].watcher.event \notin events_set}}

\* C10: start() with a process already recorded returns None and changes nothing:
\* no executor, event, session or run watcher is created, no task is submitted and
\* no subprocess is launched; so at most one subprocess runs and at most one set of
\* sync workers is live at any time.
C10_StartIsIdempotent ==
    /\ [][(pc = "start" /\ ts.tb_proc # None /\ pc' # pc) =>
            /\ pc' = "idle"
            /\ ret' = "None"
            /\ UNCHANGED <<ts, heap, events_set, executors_down, sessions_closed,
                           tasks, synced, procs, startLocals>>]_vars
    /\ [](Cardinality(Running) <= 1 /\ Cardinality(LiveExecutors) <= 1)

C10_Witness ==
    /\ calls = <<"start", "start">>
    /\ pc = "idle"
    /\ ret = "None"
    /\ ts.tb_proc # None
    /\ Len(procs) = 1

\* a call of start() has come back to the client, and no call was made since
StartCameBack == mode = "client" /\ pc = "idle" /\ calls # <<>> /\ calls[Len(calls)] = "start"

\* C11: start() on an object with no run never launches a subprocess: the
\* --logdir branch reads run_local_root, which no loop iteration has bound, so
\* start() ends in an error with _tb_proc still None, no run watcher and no
\* refresh task, after the executor, the event and the session were created.
C11_EmptyRunsNeverLaunch ==
    (mode = "client" /\ Len(ts.runs) = 0) =>
        /\ procs = <<>>
        /\ ts.tb_proc = None
        /\ ts.run_watchers = <<>>
        /\ tasks = <<>>
        /\ pc # "start_wait_url"
        /\ run_local_root = Unbound
        /\ StartCameBack =>
              /\ error = "UnboundLocalError"
              /\ ts.executor # None /\ ts.event # None /\ ts.session # None
              /\ heap.executors >= 1 /\ heap.events >= 1 /\ heap.sessions >= 1

C11_Witness ==
    /\ mode = "client" /\ Len(ts.runs) = 0
    /\ calls = <<"start">>
    /\ pc = "idle"
    /\ error = "UnboundLocalError"
    /\ ts.tb_proc = None /\ ts.executor = 1 /\ ts.event = 1 /\ ts.session = 1
    /\ procs = <<>> /\ tasks = <<>>


(***************************************************************************)
(* The multiple-instance-learning module, DeepMILModule. A tile is one     *)
(* integer feature; a rational is a pair <<numerator, denominator>>.       *)
(***************************************************************************)
Features == -FeatureMax..FeatureMax
\* probabilities are multiples of 1/ProbScale
ProbScale == 2 * FeatureMax + 2

Max(a, b) == IF a >= b THEN a ELSE b

RECURSIVE SumSeq(_)
SumSeq(q) == IF Len(q) = 0 THEN 0 ELSE Head(q) + SumSeq(Tail(q))

\* a tensor of one dimension: the values v[i] / den, of type dtype
Tensor(dtype, den, v) == [dtype |-> dtype, den |-> den, v |-> v]
\* the shape of a tensor of two dimensions, given as its rows
MatShape(rows) == <<Len(rows), Len(rows[1])>>

DeepMILModule(n_classes, pool_out_dim) ==
    [n_classes |-> n_classes, pool_out_dim |-> pool_out_dim]

\* IdentityEncoder: a tile is its own feature vector
encoder(tile) == tile

\* the unnormalised attention of pooling row k for a tile of feature h
AttentionScore(k, h) == 2 ^ ((k * h) % 3)

\* the pooling layer: per row k the attention weights over the tiles, which sum to
\* one, and the weighted aggregate of the features
pooling_layer(m, H) ==
    LET rows == 1..m.pool_out_dim
        raw == [k \in rows |-> [i \in 1..Len(H) |-> AttentionScore(k, H[i])]]
    IN  [attn |-> [k \in rows |-> [i \in 1..Len(H) |-> <<raw[k][i], SumSeq(raw[k])>>]],
         pooled |-> [k \in rows |->
                       <<SumSeq([i \in 1..Len(H) |-> raw[k][i] * H[i]]), SumSeq(raw[k])>>]]

Clip(x) == IF x > FeatureMax THEN FeatureMax ELSE IF x < -FeatureMax THEN -FeatureMax ELSE x

\* the classification head on the flattened aggregate: one logit per class
classifier(m, pooled) ==
    [c \in 1..Max(m.n_classes, 1) |->
        Clip(SumSeq([k \in 1..Len(pooled) |-> (c * pooled[k][1]) \div pooled[k][2]]))]

\* forward(bag): (logits, attention weights)
forward(m, tiles) ==
    LET H == [i \in 1..Len(tiles) |-> encoder(tiles[i])]
        P == pooling_layer(m, H)
    IN  [logits |-> <<classifier(m, P.pooled)>>, attn |-> P.attn]

(***************************************************************************)
(* test_lightningmodule: forward() on one bag.                             *)
(***************************************************************************)
\* the test's attention shape, with the pooling rows dropped
ExpectedAttnShape_one_row(m, tiles) == <<1, Len(tiles)>>

\* line 75: assert logit.shape == (1, n_classes)
ExpectedLogitShape(m) == <<1, m.n_classes>>

\* line 76: assert attn.shape == (module.pool_out_dim, max_bag_size)
ExpectedAttnShape(m, tiles) == <<m.pool_out_dim, Len(tiles)>>

testFrame == <<launcherVars, batch, test_metrics, inputs_valid, results, values, expected,
               thresholds, results_low, results_high, phase>>

\* lines 74-76
TestForward ==
    /\ tpc = "forward"
    /\ LET r == forward(module, bag)
       IN  out' = [returned |-> TRUE, logits |-> r.logits, attn |-> r.attn,
                   asserts_pass |-> /\ MatShape(r.logits) = ExpectedLogitShape(module)
                                    /\ MatShape(r.attn) = ExpectedAttnShape(module, bag)]
    /\ tpc' = "forward_done"
    /\ UNCHANGED <<testFrame, module, bag>>

\* the launcher, idle
NoLauncher ==
    /\ mode = "test"
    /\ pc = "none"
    /\ fs_files = {}
    /\ sys_executable = ""
    /\ args = [config_file |-> "config.json", port |-> DefaultPort, log_dir |-> "outputs"]
    /\ found = <<>>
    /\ runs = <<>>
    /\ ts = NoTensorboard
    /\ heap = NewHeap
    /\ events_set = {}
    /\ executors_down = {}
    /\ sessions_closed = {}
    /\ tasks = <<>>
    /\ synced = {}
    /\ procs = <<>>
    /\ local_log_dirs = <<>>
    /\ run_local_root = Unbound
    /\ next_submit = 1
    /\ error = NoError
    /\ ret = "None"
    /\ calls = <<>>
    /\ ncalls = 0
    /\ fs_dirs = {}

\* lines 36-64: the module and one bag of the batch
InitForward ==
    /\ NoLauncher
    /\ tpc = "forward"
    /\ phase = "none"
    /\ \E n \in 1..MaxClasses, d \in 1..MaxPoolOut : module = DeepMILModule(n, d)
    /\ bag \in SeqsUpTo(Features, MaxBagSize) \ {<<>>}
    /\ out = [returned |-> FALSE]
    /\ batch = <<>>
    /\ test_metrics = <<>>
    /\ inputs_valid = TRUE
    /\ results = <<>>
    /\ values = <<>>
    /\ expected = <<>>
    /\ thresholds = <<>>
    /\ results_low = <<>>
    /\ results_high = <<>>

NextForward == TestForward

SpecForward == InitForward /\ [][NextForward]_vars

\* the attention weights of one pooling row sum to one
RowSumsToOne(row) ==
    SumSeq([i \in 1..Len(row) |-> row[i][1]]) = row[1][2]
    /\ \A i \in 1..Len(row) : row[i][2] = row[1][2] /\ row[i][1] > 0

\* the number of attention weights returned
NumWeights(attn) == SumSeq([k \in 1..Len(attn) |-> Len(attn[k])])

MetricKeys == {"accuracy", "auroc", "precision", "confusion_matrix"}
\* the decision threshold of a fresh thresholded metric, 0.5
DefaultThreshold == <<1, 2>>

\* get_metrics(): a fresh accumulator per metric; AUROC has no threshold
get_metrics ==
    [key \in MetricKeys |->
        IF key = "auroc"
        THEN [preds |-> <<>>, target |-> <<>>, updates |-> 0]
        ELSE [threshold |-> DefaultThreshold, tp |-> 0, fp |-> 0, tn |-> 0, fn |-> 0,
              updates |-> 0]]

\* hasattr(metric, 'threshold')
HasThreshold(metric) == "threshold" \in DOMAIN metric

\* score >= threshold, for the score num / den
AtLeast(num, den, threshold) == num * threshold[2] >= threshold[1] * den

\* metric.update(scores, labels)
Update(metric, scores, labels) ==
    LET n == Len(scores.v)
        positive(i) == labels.v[i] >= labels.den
        predicted(i) == AtLeast(scores.v[i], scores.den, metric.threshold)
        count(want_pred, want_pos) ==
            Cardinality({i \in 1..n : predicted(i) = want_pred /\ positive(i) = want_pos})
    IN  IF HasThreshold(metric)
        THEN [metric EXCEPT !.tp = @ + count(TRUE, TRUE),
                            !.fp = @ + count(TRUE, FALSE),
                            !.tn = @ + count(FALSE, FALSE),
                            !.fn = @ + count(FALSE, TRUE),
                            !.updates = @ + 1]
        ELSE [metric EXCEPT !.preds = @ \o [i \in 1..n |-> <<scores.v[i], scores.den>>],
                            !.target = @ \o [i \in 1..n |-> positive(i)],
                            !.updates = @ + 1]

\* metric.reset(): the accumulated state is dropped, the threshold stays
Reset(metric) ==
    IF HasThreshold(metric)
    THEN [metric EXCEPT !.tp = 0, !.fp = 0, !.tn = 0, !.fn = 0, !.updates = 0]
    ELSE [metric EXCEPT !.preds = <<>>, !.target = <<>>, !.updates = 0]

\* the area under the ROC curve, as the share of (positive, negative) pairs that
\* the scores order correctly, a tie counting for half
Auroc(preds, target) ==
    LET idx == 1..Len(preds)
        pairs == {<<i, j>> \in idx \X idx : target[i] /\ ~target[j]}
        above == {q \in pairs : preds[q[1]][1] * preds[q[2]][2] > preds[q[2]][1] * preds[q[1]][2]}
        tied == {q \in pairs : preds[q[1]][1] * preds[q[2]][2] = preds[q[2]][1] * preds[q[1]][2]}
    IN  IF pairs = {} THEN <<0, 1>>
        ELSE <<2 * Cardinality(above) + Cardinality(tied), 2 * Cardinality(pairs)>>

\* metric.compute()
Compute(key, metric) ==
    CASE key = "accuracy" ->
            IF metric.tp + metric.fp + metric.tn + metric.fn = 0 THEN <<0, 1>>
            ELSE <<metric.tp + metric.tn, metric.tp + metric.fp + metric.tn + metric.fn>>
      [] key = "precision" ->
            IF metric.tp + metric.fp = 0 THEN <<0, 1>>
            ELSE <<metric.tp, metric.tp + metric.fp>>
      [] key = "confusion_matrix" -> <<<<metric.tn, metric.fp>>, <<metric.fn, metric.tp>>>>
      [] key = "auroc" -> Auroc(metric.preds, metric.target)

\* torch.allclose on two values of the metric key
allclose(key, a, b) ==
    IF key = "confusion_matrix" THEN a = b ELSE a[1] * b[2] = b[1] * a[2]

\* sigmoid, on the integer logits: increasing, inside (0, 1), 1/2 at 0;
\* the numerator of the probability over ProbScale
sigmoid(x) == x + FeatureMax + 1

\* activation_fn(logits) of a binary module
activation_fn(logits) == Tensor("float", ProbScale, [i \in 1..Len(logits) |-> sigmoid(logits[i])])

\* torch.round of a tensor of probabilities: hard labels of floating type
round(x) == Tensor(x.dtype, 1, [i \in 1..Len(x.v) |-> IF 2 * x.v[i] > x.den THEN 1 ELSE 0])

\* get_bag_label(instance_labels): the largest label in the bag
get_bag_label(labels) == CHOOSE l \in Range(labels) : \A o \in Range(labels) : o <= l

\* the scores test_step hands to the metric accumulators
MetricScores(probs) == probs

\* test_step(batch, 0): forward per bag, the probabilities, one update of every test
\* metric, and the result record
test_step(m, the_batch, metrics) ==
    LET logits == [i \in 1..Len(the_batch) |-> forward(m, the_batch[i].image).logits[1][1]]
        probs == activation_fn(logits)
        labels == Tensor("long", 1,
                         [i \in 1..Len(the_batch) |-> get_bag_label(the_batch[i].label)])
    IN  [results |-> [prob |-> probs, true_label |-> labels],
         scores |-> MetricScores(probs),
         labels |-> labels,
         metrics |-> [key \in MetricKeys |-> Update(metrics[key], MetricScores(probs), labels)]]

(***************************************************************************)
(* test_metrics                                                            *)
(***************************************************************************)
\* lines 117-118
is_integral(x) == \A i \in DOMAIN x.v : x.v[i] % x.den = 0

\* line 121
is_floating_point(x) == x.dtype = "float"

\* lines 116-123
validate_metric_inputs(scores, labels) ==
    /\ Len(scores.v) = Len(labels.v)
    /\ is_floating_point(scores)
    /\ ~is_integral(scores)
    /\ is_integral(labels)

\* an independent metric fed the hardened predictions
Independent_hard_labels(key, predicted_probs, true_labels) ==
    Compute(key, Update(get_metrics[key], round(predicted_probs), true_labels))

\* line 180: independent_metrics_dict[key](predicted_probs, true_labels)
Independent(key, predicted_probs, true_labels) ==
    Compute(key, Update(get_metrics[key], predicted_probs, true_labels))

\* a set_metrics_threshold that sets nothing
set_metrics_threshold_none(metrics_dict, threshold) == metrics_dict

\* lines 189-191
set_metrics_threshold(metrics_dict, threshold) ==
    [key \in DOMAIN metrics_dict |->
        IF HasThreshold(metrics_dict[key])
        THEN [metrics_dict[key] EXCEPT !.threshold = threshold]
        ELSE metrics_dict[key]]

\* lines 193-195
reset_metrics(metrics_dict) == [key \in DOMAIN metrics_dict |-> Reset(metrics_dict[key])]

RECURSIVE Insert(_, _)
Insert(x, sorted) ==
    IF Len(sorted) = 0 THEN <<x>>
    ELSE IF x <= Head(sorted) THEN <<x>> \o sorted
    ELSE <<Head(sorted)>> \o Insert(x, Tail(sorted))

RECURSIVE Sort(_)
Sort(q) == IF Len(q) = 0 THEN <<>> ELSE Insert(Head(q), Sort(Tail(q)))

\* torch.quantile(x, tenths / 10), interpolating linearly between the two nearest
\* values; a rational over 10 * x.den
quantile(x, tenths) ==
    LET sorted == Sort(x.v)
        pos == tenths * (Len(sorted) - 1)
        i == pos \div 10
        r == pos % 10
    IN  <<10 * sorted[i + 1] + (IF r = 0 THEN 0 ELSE r * (sorted[i + 2] - sorted[i + 1])),
          10 * x.den>>

metricsFrame == <<launcherVars, module, bag, out, batch>>

\* lines 174-176, 201 and 207: test_step with the patched update()
TestStep ==
    /\ tpc = "test_step"
    /\ LET r == test_step(module, batch, test_metrics)
       IN  /\ test_metrics' = r.metrics
           /\ results' = r.results
           /\ inputs_valid' = (inputs_valid /\ validate_metric_inputs(r.scores, r.labels))
    /\ tpc' = IF phase = "first" THEN "compare" ELSE "compute"
    /\ UNCHANGED <<metricsFrame, phase, values, expected, thresholds, results_low, results_high>>

\* lines 178-181
CompareIndependent ==
    /\ tpc = "compare"
    /\ values' = [key \in MetricKeys |-> Compute(key, test_metrics[key])]
    /\ expected' = [key \in MetricKeys |-> Independent(key, results.prob, results.true_label)]
    /\ tpc' = "quantile"
    /\ UNCHANGED <<metricsFrame, phase, test_metrics, inputs_valid, results, thresholds,
                   results_low, results_high>>

\* line 197
Quantiles ==
    /\ tpc = "quantile"
    /\ thresholds' = [low |-> quantile(results.prob, 1), high |-> quantile(results.prob, 9)]
    /\ phase' = "low"
    /\ tpc' = "reset"
    /\ UNCHANGED <<metricsFrame, test_metrics, inputs_valid, results, values, expected,
                   results_low, results_high>>

\* lines 199 and 205
ResetMetrics ==
    /\ tpc = "reset"
    /\ test_metrics' = reset_metrics(test_metrics)
    /\ tpc' = "set_threshold"
    /\ UNCHANGED <<metricsFrame, phase, inputs_valid, results, values, expected, thresholds,
                   results_low, results_high>>

\* lines 200 and 206
SetThreshold ==
    /\ tpc = "set_threshold"
    /\ test_metrics' = set_metrics_threshold(test_metrics, thresholds[phase])
    /\ tpc' = "test_step"
    /\ UNCHANGED <<metricsFrame, phase, inputs_valid, results, values, expected, thresholds,
                   results_low, results_high>>

ThresholdedKeys == {key \in MetricKeys : HasThreshold(test_metrics[key])}

\* lines 202-203 and 208-209
ComputeThresholded ==
    /\ tpc = "compute"
    /\ LET computed == [key \in ThresholdedKeys |-> Compute(key, test_metrics[key])]
       IN  IF phase = "low"
           THEN /\ results_low' = computed
                /\ phase' = "high"
                /\ tpc' = "reset"
                /\ UNCHANGED results_high
           ELSE /\ results_high' = computed
                /\ tpc' = "assert"
                /\ UNCHANGED <<results_low, phase>>
    /\ UNCHANGED <<metricsFrame, test_metrics, inputs_valid, results, values, expected,
                   thresholds>>

\* lines 211-213
AssertThresholdsMatter ==
    /\ tpc = "assert"
    /\ tpc' = IF \A key \in ThresholdedKeys :
                    ~allclose(key, results_low[key], results_high[key])
              THEN "passed" ELSE "failed"
    /\ UNCHANGED <<metricsFrame, phase, test_metrics, inputs_valid, results, values,
                   expected, thresholds, results_low, results_high>>

\* lines 150-161: one bag; every tile of a bag carries the bag's label
Bags ==
    {[image |-> <<h>>, label |-> <<l>>] : h \in Features, l \in {0, 1}}

\* lines 134-167: the module, the batch and the fresh metrics
InitMetrics ==
    /\ NoLauncher
    /\ tpc = "test_step"
    /\ phase = "first"
    /\ module = DeepMILModule(1, 1)
    /\ bag = <<>>
    /\ out = [returned |-> FALSE]
    /\ batch \in SeqsUpTo(Bags, MaxBags) \ {<<>>}
    /\ test_metrics = get_metrics
    /\ inputs_valid = TRUE
    /\ results = <<>>
    /\ values = <<>>
    /\ expected = <<>>
    /\ thresholds = <<>>
    /\ results_low = <<>>
    /\ results_high = <<>>

NextMetrics ==
    \/ TestStep
    \/ CompareIndependent
    \/ Quantiles
    \/ ResetMetrics
    \/ SetThreshold
    \/ ComputeThresholded
    \/ AssertThresholdsMatter

SpecMetrics == InitMetrics /\ [][NextMetrics]_vars

(***************************************************************************)
(* Properties of the metrics.                                              *)
(***************************************************************************)
Compared == tpc \in {"quantile", "reset", "set_threshold", "compute", "assert", "passed", "failed"}
         \/ (tpc = "test_step" /\ phase # "first")
Finished == tpc \in {"passed", "failed"}

ProbNum(i) == results.prob.v[i]
IsPositive(i) == results.true_label.v[i] = 1
\* the bags the low threshold calls positive and the high threshold negative
Between == {i \in 1..Len(batch) :
               /\ AtLeast(ProbNum(i), results.prob.den, thresholds.low)
               /\ ~AtLeast(ProbNum(i), results.prob.den, thresholds.high)}
AboveLow == {i \in 1..Len(batch) : AtLeast(ProbNum(i), results.prob.den, thresholds.low)}
Positives(S) == {i \in S : IsPositive(i)}
Negatives(S) == {i \in S : ~IsPositive(i)}
ProbsNotAllEqual == \E i, j \in 1..Len(batch) : ProbNum(i) # ProbNum(j)
Differs(key) == ~allclose(key, results_low[key], results_high[key])

=============================================================================
